---- MODULE Spec2Model ----
(***************************************************************************)
(* Cat API: FastAPI handlers (src/main.py) over a relational table `cat`   *)
(* (src/cat_model.py) with a cache-aside layer on Redis (src/cache.py).    *)
(*                                                                         *)
(* Every `await` of a handler is one step of the request that runs it, so  *)
(* requests interleave at every cache call and every store call.  The      *)
(* request schema validation is outside the model: a request is the call  *)
(* of its handler with validated arguments.  The router gives a path to    *)
(* the first route declared that matches it, so GET /cats/search is given  *)
(* to /cats/{cat_id} and refused; get_cat_by_name runs only when it is     *)
(* called as a function.  GET /cache/status writes nothing and is left     *)
(* out.  The store is taken to be available throughout.                    *)
(***************************************************************************)
EXTENDS Integers, Sequences, FiniteSets, TLC

(* ------------------------------ bounds -------------------------------- *)

\* Number of rows the id sequence may hand out (POST /cats is refused by the
\* model once the sequence has passed it).
MaxId == 2

\* Number of requests that may be in flight at the same time.
MaxReq == 2

\* Number of requests concurrent clients send in a run.
MaxServed == 4

\* Number of requests serial clients send in a run.
MaxSerial == 5

\* Number of calls the direct caller of the adapter makes in a run.
MaxCalls == 3

(* --------------------------- input domains ---------------------------- *)

Ids == 1..MaxId
Reqs == 1..MaxReq
Names == {"Tom", "Kit"}
Ages == {3, 4}
Weights == {4}
Breeds == {"Tabby"}

\* Fields of a Cat that a request body carries (all but the primary key).
BodyFields == {"name", "age", "weight", "breed"}

(* ------------------------------ values -------------------------------- *)

\* Python's None.
None == [none |-> TRUE]

\* A Cat instance / a row of table `cat`.
Cat(id, name, age, weight, breed) ==
    [id |-> id, name |-> name, age |-> age, weight |-> weight, breed |-> breed]

\* A Python list.
List(items) == [list |-> items]

\* str(cat): the text that names every field of the cat with its value, such
\* as "name='Tom' age=3 weight=4.0 breed='Tabby' id=1"; it is a string, not
\* a Cat.
Str(cat) == [str |-> cat]

\* Values json encodes natively: numbers, strings, booleans, mappings with
\* string keys (None and List are above).  A mapping is a dict: its members
\* in the order in which their keys were inserted.
JNum(n) == [num |-> n]
JStr(s) == [chars |-> s]
JBool(b) == [bool |-> b]
Member(key, value) == [key |-> key, value |-> value]
JMap(m) == [map |-> m]

IsCat(v) == "id" \in DOMAIN v
IsList(v) == "list" \in DOMAIN v
IsStr(v) == "str" \in DOMAIN v
IsJStr(v) == "chars" \in DOMAIN v
IsJNum(v) == "num" \in DOMAIN v
IsJBool(v) == "bool" \in DOMAIN v
IsJMap(v) == "map" \in DOMAIN v

\* The value that comes back from the text of json.dumps(value, default=str)
\* for what the handlers cache: a value json cannot encode (a Cat instance)
\* is replaced by default(value) = str(value); lists are encoded element by
\* element; None is null.
JsonCoerce(v) ==
    IF IsCat(v) THEN Str(v)
    ELSE IF IsList(v)
         THEN List([i \in 1..Len(v.list) |->
                     IF IsCat(v.list[i]) THEN Str(v.list[i]) ELSE v.list[i]])
         ELSE v

\* A text is the sequence of its characters.  The characters of str(cat)
\* are taken whole, as one item: they hold no double quote.
Chr(c) == [c |-> c]
Span(cat) == [c |-> "", str |-> cat]
Text(s) == [i \in 1..Len(s) |-> Chr(SubSeq(s, i, i))]

RECURSIVE Enc(_)
RECURSIVE EncItems(_, _)
RECURSIVE EncMembers(_, _)

\* The elements of a list, separated by ", ".
EncItems(list, i) ==
    IF i > Len(list) THEN <<>>
    ELSE Enc(list[i]) \o (IF i < Len(list) THEN Text(", ") ELSE <<>>)
           \o EncItems(list, i + 1)

\* The members of a dict in its order, "key": value, separated by ", ".
EncMembers(members, i) ==
    IF i > Len(members) THEN <<>>
    ELSE Text("\"") \o Text(members[i].key) \o Text("\": ")
           \o Enc(members[i].value)
           \o (IF i < Len(members) THEN Text(", ") ELSE <<>>)
           \o EncMembers(members, i + 1)

\* The JSON text of a value; what json cannot encode goes through
\* default=str and is encoded as that string.
Enc(v) ==
    IF v = None THEN Text("null")
    ELSE IF IsJBool(v) THEN Text(IF v.bool THEN "true" ELSE "false")
    ELSE IF IsJNum(v) THEN Text(ToString(v.num))
    ELSE IF IsJStr(v) THEN Text("\"") \o Text(v.chars) \o Text("\"")
    ELSE IF IsStr(v) THEN <<Chr("\""), Span(v.str), Chr("\"")>>
    ELSE IF IsList(v) THEN Text("[") \o EncItems(v.list, 1) \o Text("]")
    ELSE IF IsJMap(v)
         THEN Text("{") \o EncMembers(v.map, 1) \o Text("}")
    ELSE Enc(Str(v))

\* The JSON text json.dumps(value, default=str) produces.
JsonDumps(v) == Enc(v)

RECURSIVE StringEnd(_, _)
RECURSIVE DigitsEnd(_, _)
RECURSIVE Join(_)
RECURSIVE NumOf(_)
RECURSIVE ParseValue(_, _)
RECURSIVE ParseItems(_, _, _)
RECURSIVE ParseMembers(_, _, _)

Digits == {ToString(d) : d \in 0..9}
DigitOf(c) == CHOOSE d \in 0..9 : ToString(d) = c

\* Position of the double quote that closes a string whose content starts
\* at i.
StringEnd(t, i) == IF t[i].c = "\"" THEN i ELSE StringEnd(t, i + 1)

\* Position after the digits that start at i.
DigitsEnd(t, i) ==
    IF i > Len(t) \/ t[i].c \notin Digits THEN i ELSE DigitsEnd(t, i + 1)

\* The string of a sequence of characters.
Join(t) == IF t = <<>> THEN "" ELSE Head(t).c \o Join(Tail(t))

\* The number a sequence of digits denotes.
NumOf(t) ==
    IF t = <<>> THEN 0
    ELSE 10 * NumOf(SubSeq(t, 1, Len(t) - 1)) + DigitOf(t[Len(t)].c)

\* The string whose opening double quote is at i, and the position after
\* its closing double quote.
ParseString(t, i) ==
    LET j == StringEnd(t, i + 1)
        body == SubSeq(t, i + 1, j - 1)
    IN  [val |-> IF Len(body) = 1 /\ IsStr(body[1]) THEN Str(body[1].str)
                 ELSE JStr(Join(body)),
         next |-> j + 1]

\* The elements of a list from position i on, after the elements `acc`.
ParseItems(t, i, acc) ==
    LET p == ParseValue(t, i)
        items == Append(acc, p.val)
    IN  IF t[p.next].c = "," THEN ParseItems(t, p.next + 2, items)
        ELSE [val |-> List(items), next |-> p.next + 1]

\* dict[key] = value: a key the dict has keeps its place and takes the
\* value, a new key goes last.
SetItem(members, key, value) ==
    IF \E n \in 1..Len(members) : members[n].key = key
    THEN [n \in 1..Len(members) |->
            IF members[n].key = key THEN Member(key, value) ELSE members[n]]
    ELSE Append(members, Member(key, value))

\* The members of a mapping from position i on, after the members `acc`, in
\* the order of the text.
ParseMembers(t, i, acc) ==
    LET key == ParseString(t, i)
        p == ParseValue(t, key.next + 2)
        members == SetItem(acc, key.val.chars, p.val)
    IN  IF t[p.next].c = "," THEN ParseMembers(t, p.next + 2, members)
        ELSE [val |-> JMap(members), next |-> p.next + 1]

\* The value that starts at position i of a JSON text, and the position
\* after it.
ParseValue(t, i) ==
    LET c == t[i].c
    IN  IF c = "n" THEN [val |-> None, next |-> i + 4]
        ELSE IF c = "t" THEN [val |-> JBool(TRUE), next |-> i + 4]
        ELSE IF c = "f" THEN [val |-> JBool(FALSE), next |-> i + 5]
        ELSE IF c = "\"" THEN ParseString(t, i)
        ELSE IF c = "["
             THEN IF t[i + 1].c = "]"
                  THEN [val |-> List(<<>>), next |-> i + 2]
                  ELSE ParseItems(t, i + 1, <<>>)
        ELSE IF c = "{"
             THEN IF t[i + 1].c = "}"
                  THEN [val |-> JMap(<<>>), next |-> i + 2]
                  ELSE ParseMembers(t, i + 1, <<>>)
        ELSE LET j == DigitsEnd(t, i)
             IN  [val |-> JNum(NumOf(SubSeq(t, i, j - 1))), next |-> j]

\* json.loads(text): the value the text denotes.
JsonLoads(text) == ParseValue(text, 1).val

(* ------------------------------- keys --------------------------------- *)

KeyAll == "cats:all"
KeyId(cat_id) == "cat:" \o ToString(cat_id)
KeyName(cat_name) == "cat:name:" \o cat_name

\* The key GET /ra writes.
KeyRa == "key"

Keys ==
    {KeyAll, KeyRa} \cup {KeyId(i) : i \in Ids} \cup {KeyName(n) : n \in Names}

\* TTLs the read handlers pass to cache_manager.set.
TtlAll == 300
TtlId == 600
TtlName == 300

\* ttl of CacheManager.set when the caller passes none.
TtlDefault == 3600

\* A key Redis does not hold.
Missing == [nil |-> TRUE]

(* ------------------------------ state --------------------------------- *)

VARIABLES
    cat_table,      \* rows of table `cat`: a set of Cat records, ids unique
    id_seq,         \* next value of the primary key sequence
    redis_db,       \* Redis: key -> [text, ttl] or Missing
    redis_up,       \* whether Redis answers; a call on a down Redis raises
    enabled,        \* CacheManager.enabled
    redis_client,   \* CacheManager.redis_client: "None" or "Redis"
    phase,          \* lifespan: "startup", "serving", "stopped"
    served,         \* number of requests accepted so far
    req             \* the requests in flight: slot -> request record

vars == <<cat_table, id_seq, redis_db, redis_up, enabled, redis_client,
          phase, served, req>>

(* ------------------------------ store --------------------------------- *)

\* result.scalars().first() of select(Cat).where(Cat.id == cat_id).
SelectById(cat_id) ==
    IF \E c \in cat_table : c.id = cat_id
    THEN CHOOSE c \in cat_table : c.id = cat_id
    ELSE None

\* The orders in which a select without ORDER BY may return `rows`: the
\* database's choice, any order.
RECURSIVE Orders(_)
Orders(rows) ==
    IF rows = {} THEN {<<>>}
    ELSE UNION {{<<c>> \o s : s \in Orders(rows \ {c})} : c \in rows}

\* result.scalars().all() of select(Cat): the lists the select may return.
SelectAll == {List(s) : s \in Orders(cat_table)}

\* result.scalars().all() of select(Cat).where(Cat.name == cat_name): the
\* lists the select may return.
SelectByName(cat_name) ==
    {List(s) : s \in Orders({c \in cat_table : c.name = cat_name})}

\* An id allocation that hands out the id after the largest one in the table,
\* so the id of a deleted last row is given again.
AssignIdAfterMax ==
    IF cat_table = {} THEN 1
    ELSE (CHOOSE c \in cat_table : \A d \in cat_table : d.id <= c.id).id + 1

\* The id the database gives an inserted row: the next value of the
\* autoincrement sequence, which never hands out a value twice.
AssignId == id_seq

(* --------------------------- cache adapter ---------------------------- *)

\* `if not self.enabled or not self.redis_client: return ...`
Unavailable == ~enabled \/ redis_client = "None"

\* Whether the Redis call of an adapter method raises inside its try block.
RedisRaises == ~Unavailable /\ ~redis_up

\* Adapter methods without their `except Exception` clause.
CacheRaisesUncaught == RedisRaises

\* Whether CacheManager.get/set/delete/flush raises to its caller: the
\* `except Exception` of each method catches whatever the Redis call raises.
CacheRaises == FALSE

\* A value Python takes for false in `if value:`.
Falsy(v) == v \in {None, JBool(FALSE), JNum(0), JStr(""), List(<<>>)}

\* A get whose `if value:` tests the decoded value instead of the text Redis
\* returned.
CacheGetFalsyIsMiss(key) ==
    IF Unavailable THEN None
    ELSE IF ~redis_up THEN None
    ELSE IF redis_db[key] = Missing THEN None
    ELSE IF Falsy(JsonLoads(redis_db[key].text)) THEN None
    ELSE JsonLoads(redis_db[key].text)

\* `if value:` on what redis_client.get returned: nil for a key Redis does
\* not hold, else the text, which counts as false when it is empty.
ValueTruthy(value) == value # Missing /\ Len(value.text) > 0

\* CacheManager.get(key): the value returned.
CacheGet(key) ==
    IF Unavailable THEN None
    ELSE IF ~redis_up THEN None                       \* except: return None
    ELSE IF ~ValueTruthy(redis_db[key]) THEN None      \* `if value:` fails
    ELSE JsonLoads(redis_db[key].text)

\* A set that reports success when the cache is disabled or disconnected.
CacheSetRetTrueWhenOff(key, value, ttl) ==
    IF Unavailable THEN TRUE
    ELSE IF ~redis_up THEN FALSE
    ELSE TRUE

\* CacheManager.set(key, value, ttl): the flag returned.
CacheSetRet(key, value, ttl) ==
    IF Unavailable THEN FALSE
    ELSE IF ~redis_up THEN FALSE                      \* except: return False
    ELSE TRUE

\* CacheManager.set(key, value, ttl): Redis afterwards.
CacheSetDb(key, value, ttl) ==
    IF Unavailable \/ ~redis_up THEN redis_db
    ELSE [redis_db EXCEPT ![key] = [text |-> JsonDumps(value), ttl |-> ttl]]

\* CacheManager.delete(key): the flag returned (result > 0).
CacheDeleteRet(key) ==
    IF Unavailable THEN FALSE
    ELSE IF ~redis_up THEN FALSE                      \* except: return False
    ELSE redis_db[key] # Missing

\* A delete whose Redis call is never awaited, and so never runs.
CacheDeleteDbNotAwaited(key) == redis_db

\* CacheManager.delete(key): Redis afterwards.
CacheDeleteDb(key) ==
    IF Unavailable \/ ~redis_up THEN redis_db
    ELSE [redis_db EXCEPT ![key] = Missing]

\* CacheManager.exists(key): the flag returned.
CacheExists(key) ==
    IF Unavailable THEN FALSE
    ELSE IF ~redis_up THEN FALSE
    ELSE redis_db[key] # Missing

\* CacheManager.flush(): the flag returned.
CacheFlushRet ==
    IF Unavailable THEN FALSE
    ELSE IF ~redis_up THEN FALSE
    ELSE TRUE

\* CacheManager.flush(): Redis afterwards.
CacheFlushDb ==
    IF Unavailable \/ ~redis_up THEN redis_db
    ELSE [k \in Keys |-> Missing]

(* ----------------------------- requests ------------------------------- *)

\* HTTP responses.
Ok(body) == [status |-> 200, body |-> body]
NotFound == [status |-> 404, body |-> [detail |-> "Cat not found"]]
ServerError == [status |-> 500, body |-> [detail |-> "Internal Server Error"]]
Unprocessable == [status |-> 422, body |-> [detail |-> "int_parsing"]]
NoResp == [status |-> 0, body |-> None]

\* A call a handler has made: what it called, the cache key (if any), what
\* the call returned, and whether Redis raised inside the adapter.
Ev(ev, key, out, err) == [ev |-> ev, key |-> key, out |-> out, err |-> err]
EvCommit == Ev("commit", "", None, FALSE)
EvSelect(out) == Ev("select", "", out, FALSE)
EvRefresh(out) == Ev("refresh", "", out, FALSE)
EvExecute(out) == Ev("execute", "", out, FALSE)
EvGet(key, out) == Ev("get", key, out, RedisRaises)
EvSet(key, value) == Ev("set", key, value, RedisRaises)
EvDelete(key) == Ev("delete", key, None, RedisRaises)

\* No earlier request of the same client.
NoPrior == [op |-> "none", resp |-> NoResp, calls |-> <<>>]

\* A free slot.  `calls` lists the calls the handler has made so far;
\* `quiet` and `prior` record what the request's client knows (see
\* StartRequest and ReadBack).
Idle ==
    [op |-> "none", pc |-> "idle", cat_id |-> 0, cat_name |-> "", body |-> <<>>,
     obj |-> None, loaded |-> None, todo |-> <<>>, resp |-> NoResp,
     calls |-> <<>>, quiet |-> FALSE, prior |-> NoPrior]

\* Bodies of POST /cats: every field given.
CreateBodies ==
    {[name |-> n, age |-> a, weight |-> w, breed |-> b] :
        n \in Names, a \in Ages, w \in Weights, b \in Breeds}

\* Bodies of PATCH /cats/{id}: the fields the client set, possibly none.
PatchBodies ==
    {<<>>, [name |-> "Kit"], [age |-> 4], [name |-> "Kit", age |-> 4]}

\* The calls of the handlers, each at the first await of its handler.  The
\* router makes all of them for an HTTP request but get_cat_by_name, whose
\* path /cats/search is matched by /cats/{cat_id}, declared before it:
\* get_cat_by_name is the handler called as a function, and cats_search the
\* HTTP request GET /cats/search?cat_name=..., which is answered 422 ("search"
\* is no integer) before any handler runs.
NewRequests ==
    {[Idle EXCEPT !.op = "create_cat", !.pc = "create_flush", !.body = b] :
        b \in CreateBodies}
    \cup {[Idle EXCEPT !.op = "delete_cat", !.pc = "delete_execute", !.cat_id = i] :
        i \in Ids}
    \cup {[Idle EXCEPT !.op = "get_cats", !.pc = "read_get"]}
    \cup {[Idle EXCEPT !.op = "update_cat", !.pc = "update_select", !.cat_id = i,
                       !.body = b] : i \in Ids, b \in PatchBodies}
    \cup {[Idle EXCEPT !.op = "get_cat_by_id", !.pc = "read_get", !.cat_id = i] :
        i \in Ids}
    \cup {[Idle EXCEPT !.op = "get_cat_by_name", !.pc = "read_get", !.cat_name = n] :
        n \in Names}
    \cup {[Idle EXCEPT !.op = "cats_search", !.pc = "done", !.cat_name = n,
                       !.resp = Unprocessable] : n \in Names}
    \cup {[Idle EXCEPT !.op = "flush_cache", !.pc = "flush"]}
    \cup {[Idle EXCEPT !.op = "ra", !.pc = "ra"]}

ReadOps == {"get_cats", "get_cat_by_id", "get_cat_by_name"}
WriteOps == {"create_cat", "update_cat", "delete_cat"}

\* cache_key of a read handler.
CacheKey(q) ==
    IF q.op = "get_cats" THEN KeyAll
    ELSE IF q.op = "get_cat_by_id" THEN KeyId(q.cat_id)
    ELSE KeyName(q.cat_name)

\* Read handlers that all pass the ttl of get_cats.
CacheTtlSameForAll(q) == TtlAll

\* ttl a read handler passes to cache_manager.set.
CacheTtl(q) ==
    IF q.op = "get_cats" THEN TtlAll
    ELSE IF q.op = "get_cat_by_id" THEN TtlId
    ELSE TtlName

\* The select of a read handler, on the table as it is now: the results it
\* may give.
StoreRead(q) ==
    IF q.op = "get_cats" THEN SelectAll
    ELSE IF q.op = "get_cat_by_id" THEN {SelectById(q.cat_id)}
    ELSE SelectByName(q.cat_name)

\* `if cached:`, which takes a cached empty list for a miss.
IsHitTruthy(cached) == cached # None /\ cached # List(<<>>)

\* `if cached is not None: return cached`
IsHit(cached) == cached # None

\* get_cat_by_id without its `if not cat` test.
RaisesNotFoundNever(q, result) == FALSE

\* get_cat_by_id: `if not cat: raise HTTPException(404)`; the list handlers
\* have no such test.
RaisesNotFound(q, result) == q.op = "get_cat_by_id" /\ result = None

\* A create_cat that deletes no key.
CreateInvalidatesNothing == <<>>

\* Keys create_cat deletes after its session block.
CreateInvalidates == <<KeyAll>>

\* A delete_cat that deletes cats:all only when the row was there.
DeleteInvalidatesIfFound(cat_id) ==
    IF SelectById(cat_id) = None THEN <<>> ELSE <<KeyAll>>

\* Keys delete_cat deletes after its session block.
DeleteInvalidates(cat_id) == <<KeyAll>>

\* An update that also deletes the name-search keys.
UpdateInvalidatesNames(cat_id) ==
    <<KeyAll, KeyId(cat_id), KeyName("Tom"), KeyName("Kit")>>

\* Keys update_cat deletes after its session block, in this order.
UpdateInvalidates(cat_id) == <<KeyAll, KeyId(cat_id)>>

\* The value a write handler returns.
WriteResult(q) ==
    IF q.op = "delete_cat" THEN [message |-> q.cat_id] ELSE q.obj

\* setattr(cat_to_update, key, value) for every field the client set.
SetAttrs(row, body) ==
    [f \in DOMAIN row |-> IF f \in DOMAIN body THEN body[f] ELSE row[f]]

\* The attributes of the loaded instance whose value changed: the columns
\* the flush writes.
Dirty(obj, loaded) == {f \in BodyFields : obj[f] # loaded[f]}

(* ------------------------ what clients observe ------------------------ *)

\* The id of the row a write request has committed to, 0 before its commit.
Target(q) ==
    IF q.op = "create_cat" THEN (IF IsCat(q.obj) THEN q.obj.id ELSE 0)
    ELSE q.cat_id

\* A write request between its commit and its return: its invalidation has
\* not completed.
Invalidating(q) == q.op \in WriteOps /\ q.pc \in {"refresh", "invalidate"}

\* A commit has changed row `cat_id`: requests reading that id no longer
\* run against one state of the row.
Disturb(q, cat_id) ==
    IF q.op = "get_cat_by_id" /\ q.cat_id = cat_id
    THEN [q EXCEPT !.quiet = FALSE] ELSE q

\* The requests after request r has taken a step to q and committed to row
\* `cat_id`.
Committed(r, q, cat_id) ==
    [s \in Reqs |-> IF s = r THEN q ELSE Disturb(req[s], cat_id)]

(* ----------------------------- lifespan ------------------------------- *)

Init ==
    /\ cat_table = {}
    /\ id_seq = 1
    /\ redis_db = [k \in Keys |-> Missing]
    /\ redis_up \in BOOLEAN
    /\ enabled \in BOOLEAN
    /\ redis_client = "None"
    /\ phase = "startup"
    /\ served = 0
    /\ req = [r \in Reqs |-> Idle]

\* A connect whose except clause only logs, and keeps the client it built.
ConnectClientKept == IF ~enabled THEN redis_client ELSE "Redis"

\* CacheManager.connect(): redis_client when it returns.
ConnectClient ==
    IF ~enabled THEN redis_client                      \* early return
    ELSE IF redis_up THEN "Redis"                      \* ping answered
    ELSE "None"                                        \* except: None

\* lifespan, before `yield`: await cache_manager.connect().
Connect ==
    /\ phase = "startup"
    /\ phase' = "serving"
    /\ redis_client' = ConnectClient
    /\ UNCHANGED <<cat_table, id_seq, redis_db, redis_up, enabled, served, req>>

\* lifespan, after `yield`: cache_manager.disconnect(), once the requests in
\* flight have been answered.  redis_client keeps its value.
Disconnect ==
    /\ phase = "serving"
    /\ \A r \in Reqs : req[r].pc = "idle"
    /\ phase' = "stopped"
    /\ UNCHANGED <<cat_table, id_seq, redis_db, redis_up, enabled, redis_client,
                   served, req>>

(* --------------------------- environment ------------------------------ *)

\* Redis stops answering: every call on it raises until it recovers.
BackendFail ==
    /\ redis_up
    /\ redis_up' = FALSE
    /\ UNCHANGED <<cat_table, id_seq, redis_db, enabled, redis_client, phase,
                   served, req>>

BackendRecover ==
    /\ ~redis_up
    /\ redis_up' = TRUE
    /\ UNCHANGED <<cat_table, id_seq, redis_db, enabled, redis_client, phase,
                   served, req>>

\* Redis drops a key whose ttl has run out.
Expire(key) ==
    /\ redis_db[key] # Missing
    /\ redis_db' = [redis_db EXCEPT ![key] = Missing]
    /\ UNCHANGED <<cat_table, id_seq, redis_up, enabled, redis_client, phase,
                   served, req>>

(* ----------------------------- handlers ------------------------------- *)

Call(q, ev) == [q EXCEPT !.calls = Append(@, ev)]

\* The handler returns or raises: the response is ready for the client.
Return(q, resp) == [q EXCEPT !.pc = "done", !.resp = resp]

\* After the session block of a write handler: the first cache delete, or
\* the return when the handler deletes nothing.
AfterStore(q, keys) ==
    IF keys = <<>> THEN Return(q, Ok(WriteResult(q)))
    ELSE [q EXCEPT !.pc = "invalidate", !.todo = keys]

\* A client sends a request or calls a handler.  Serial clients wait for the answer to the
\* previous request before they send the next one.  A GET /cats/{id} is
\* `quiet` when no write to its id is between commit and return as it starts.
StartRequest(r, serial) ==
    /\ phase = "serving"
    /\ req[r].pc = "idle"
    /\ \A s \in Reqs : s < r => req[s].pc # "idle"     \* the first free slot
    /\ served < (IF serial THEN MaxSerial ELSE MaxServed)
    /\ serial => \A s \in Reqs : req[s].pc = "idle"
    /\ \E q \in NewRequests :
          /\ q.op = "create_cat" => id_seq <= MaxId
          /\ req' = [req EXCEPT ![r] =
                [q EXCEPT !.quiet =
                    /\ q.op = "get_cat_by_id"
                    /\ \A s \in Reqs :
                          ~(Invalidating(req[s]) /\ Target(req[s]) = q.cat_id)]]
    /\ served' = served + 1
    /\ UNCHANGED <<cat_table, id_seq, redis_db, redis_up, enabled, redis_client,
                   phase>>

\* The client has the response; the slot is free again.
Respond(r) ==
    /\ req[r].pc = "done"
    /\ req' = [req EXCEPT ![r] = Idle]
    /\ UNCHANGED <<cat_table, id_seq, redis_db, redis_up, enabled, redis_client,
                   phase, served>>

\* The client of an answered write fetches the row it wrote at once, with
\* GET /cats/{id}, keeping the write and its answer in `prior`.
ReadBack(r) ==
    /\ req[r].pc = "done"
    /\ req[r].op \in WriteOps
    /\ req[r].resp.status = 200
    /\ served < MaxSerial
    /\ \A s \in Reqs : s # r => req[s].pc = "idle"
    /\ req' = [req EXCEPT ![r] =
                 [Idle EXCEPT !.op = "get_cat_by_id", !.pc = "read_get",
                              !.cat_id = Target(req[r]), !.quiet = TRUE,
                              !.prior = [op |-> req[r].op, resp |-> req[r].resp,
                                         calls |-> req[r].calls]]]
    /\ served' = served + 1
    /\ UNCHANGED <<cat_table, id_seq, redis_db, redis_up, enabled, redis_client,
                   phase>>

\* create_cat: session.add(cat_model); await session.commit(), first round
\* trip: the flush issues INSERT INTO cat ... RETURNING id inside the
\* session's transaction.  The sequence hands out the id now; other sessions
\* do not see the row until the COMMIT.
CreateFlush(r) ==
    /\ req[r].pc = "create_flush"
    /\ LET b == req[r].body
           row == Cat(AssignId, b.name, b.age, b.weight, b.breed)
       IN  req' = [req EXCEPT ![r] =
                    [@ EXCEPT !.pc = "create_commit", !.obj = row]]
    /\ id_seq' = id_seq + 1
    /\ UNCHANGED <<cat_table, redis_db, redis_up, enabled, redis_client, phase,
                   served>>

\* create_cat: await session.commit(), second round trip: COMMIT.  The
\* inserted row is in the table for every session.
CreateCommit(r) ==
    /\ req[r].pc = "create_commit"
    /\ LET row == req[r].obj
           q == [Call(req[r], EvCommit) EXCEPT !.pc = "refresh"]
       IN  /\ cat_table' = cat_table \cup {row}
           /\ req' = Committed(r, q, row.id)
    /\ UNCHANGED <<id_seq, redis_db, redis_up, enabled, redis_client, phase,
                   served>>

\* create_cat, update_cat: await session.refresh(obj) reloads the row by its
\* primary key, and raises when the row is no longer there.
Refresh(r) ==
    /\ req[r].pc = "refresh"
    /\ LET row == SelectById(req[r].obj.id)
           q == Call(req[r], EvRefresh(row))
           keys == IF q.op = "create_cat" THEN CreateInvalidates
                   ELSE UpdateInvalidates(q.cat_id)
       IN  req' = [req EXCEPT ![r] =
                    IF row = None THEN Return(q, ServerError)
                    ELSE AfterStore([q EXCEPT !.obj = row], keys)]
    /\ UNCHANGED <<cat_table, id_seq, redis_db, redis_up, enabled, redis_client,
                   phase, served>>

\* Row `cat_id` is deleted by a DELETE statement whose transaction has not
\* committed: the statement holds the row's lock, and a statement of another
\* session that writes the row waits for the commit.
DeletePending(cat_id) ==
    \E s \in Reqs :
        /\ req[s].op = "delete_cat" /\ req[s].pc = "delete_commit"
        /\ req[s].cat_id = cat_id /\ req[s].loaded # None

\* Row `cat_id` is changed by an UPDATE statement whose transaction has not
\* committed.
UpdatePending(cat_id) ==
    \E s \in Reqs :
        /\ req[s].op = "update_cat" /\ req[s].pc = "update_commit"
        /\ req[s].cat_id = cat_id /\ Dirty(req[s].obj, req[s].loaded) # {}

\* Another session's uncommitted statement holds the lock of row `cat_id`.
RowLocked(cat_id) == DeletePending(cat_id) \/ UpdatePending(cat_id)

\* delete_cat: await session.execute(delete(Cat).where(Cat.id == cat_id)).
\* The statement deletes the row that has the id when it runs, if any, inside
\* the session's transaction: other sessions see the row until the commit.
\* `loaded` holds the row the statement deleted.
DeleteExecute(r) ==
    /\ req[r].pc = "delete_execute"
    /\ ~RowLocked(req[r].cat_id)
    /\ LET row == SelectById(req[r].cat_id)
       IN  req' = [req EXCEPT ![r] =
                    [Call(@, EvExecute(row)) EXCEPT !.pc = "delete_commit",
                                                     !.loaded = row]]
    /\ UNCHANGED <<cat_table, id_seq, redis_db, redis_up, enabled, redis_client,
                   phase, served>>

\* delete_cat: await session.commit().  The row the statement deleted goes
\* from the table; a row committed with that id since the statement ran
\* stays.
DeleteCommit(r) ==
    /\ req[r].pc = "delete_commit"
    /\ LET q == AfterStore(Call(req[r], EvCommit),
                           DeleteInvalidates(req[r].cat_id))
       IN  /\ cat_table' = cat_table \ {q.loaded}
           /\ req' = Committed(r, q, q.cat_id)
    /\ UNCHANGED <<id_seq, redis_db, redis_up, enabled, redis_client, phase,
                   served>>

\* An update_cat that runs its cache deletes also when it found no row.
UpdateMissingInvalidates(q) == AfterStore(q, UpdateInvalidates(q.cat_id))

\* update_cat: `if not cat_to_update: raise HTTPException(404)`, inside the
\* session block: the handler ends there.
UpdateMissing(q) == Return(q, NotFound)

\* update_cat: the select, the 404 when it finds no row, and the setattr
\* loop.
UpdateSelect(r) ==
    /\ req[r].pc = "update_select"
    /\ LET row == SelectById(req[r].cat_id)
           q == Call(req[r], EvSelect(row))
       IN  req' = [req EXCEPT ![r] =
                    IF row = None THEN UpdateMissing(q)
                    ELSE [q EXCEPT !.pc = "update_flush", !.loaded = row,
                                   !.obj = SetAttrs(row, q.body)]]
    /\ UNCHANGED <<cat_table, id_seq, redis_db, redis_up, enabled, redis_client,
                   phase, served>>

\* update_cat: await session.commit(), first round trip: the flush issues
\* UPDATE cat SET <changed columns> WHERE id = <id> inside the session's
\* transaction, and raises when that matches no row; with no changed column
\* it issues nothing.  The UPDATE waits while an uncommitted DELETE or UPDATE
\* of another session holds the row, and holds the row itself until the
\* COMMIT; other sessions see the old row until then.
UpdateFlush(r) ==
    /\ req[r].pc = "update_flush"
    /\ LET dirty == Dirty(req[r].obj, req[r].loaded)
           cur == SelectById(req[r].cat_id)
       IN  /\ dirty # {} => ~RowLocked(req[r].cat_id)
           /\ req' = [req EXCEPT ![r] =
                        IF dirty # {} /\ cur = None THEN Return(@, ServerError)
                        ELSE [@ EXCEPT !.pc = "update_commit"]]
    /\ UNCHANGED <<cat_table, id_seq, redis_db, redis_up, enabled, redis_client,
                   phase, served>>

\* update_cat: await session.commit(), second round trip: COMMIT.  The
\* changed columns of the row are in the table for every session.
UpdateCommit(r) ==
    /\ req[r].pc = "update_commit"
    /\ LET dirty == Dirty(req[r].obj, req[r].loaded)
           cur == SelectById(req[r].cat_id)
           q == [Call(req[r], EvCommit) EXCEPT !.pc = "refresh"]
       IN  IF dirty = {}
           THEN /\ req' = [req EXCEPT ![r] = q]
                /\ UNCHANGED cat_table
           ELSE /\ req' = Committed(r, q, q.cat_id)
                /\ cat_table' =
                     (cat_table \ {cur}) \cup
                     {[f \in DOMAIN cur |->
                         IF f \in dirty THEN q.obj[f] ELSE cur[f]]}
    /\ UNCHANGED <<id_seq, redis_db, redis_up, enabled, redis_client, phase,
                   served>>

\* Write handlers: await cache_manager.delete(key) for the next key; after
\* the last one the handler returns.
Invalidate(r) ==
    /\ req[r].pc = "invalidate"
    /\ LET key == Head(req[r].todo)
           q == [Call(req[r], EvDelete(key)) EXCEPT !.todo = Tail(@)]
       IN  /\ redis_db' = CacheDeleteDb(key)
           /\ req' = [req EXCEPT ![r] =
                        IF CacheRaises THEN Return(q, ServerError)
                        ELSE IF q.todo = <<>> THEN Return(q, Ok(WriteResult(q)))
                        ELSE q]
    /\ UNCHANGED <<cat_table, id_seq, redis_up, enabled, redis_client, phase,
                   served>>

\* Read handlers: cached = await cache_manager.get(cache_key), and the
\* return of a hit.
ReadGet(r) ==
    /\ req[r].pc = "read_get"
    /\ LET cached == CacheGet(CacheKey(req[r]))
           q == Call(req[r], EvGet(CacheKey(req[r]), cached))
       IN  req' = [req EXCEPT ![r] =
                    IF CacheRaises THEN Return(q, ServerError)
                    ELSE IF IsHit(cached) THEN Return(q, Ok(cached))
                    ELSE [q EXCEPT !.pc = "read_select"]]
    /\ UNCHANGED <<cat_table, id_seq, redis_db, redis_up, enabled, redis_client,
                   phase, served>>

\* Read handlers: the select in the session block, and the 404 of
\* get_cat_by_id.
ReadSelect(r) ==
    /\ req[r].pc = "read_select"
    /\ \E result \in StoreRead(req[r]) :
          LET q == Call(req[r], EvSelect(result))
          IN  req' = [req EXCEPT ![r] =
                       IF RaisesNotFound(q, result) THEN Return(q, NotFound)
                       ELSE [q EXCEPT !.pc = "read_set", !.obj = result]]
    /\ UNCHANGED <<cat_table, id_seq, redis_db, redis_up, enabled, redis_client,
                   phase, served>>

\* Read handlers: await cache_manager.set(cache_key, result, ttl) and the
\* return of the store's result.
ReadSet(r) ==
    /\ req[r].pc = "read_set"
    /\ LET q == Call(req[r], EvSet(CacheKey(req[r]), req[r].obj))
       IN  /\ redis_db' = CacheSetDb(CacheKey(q), q.obj, CacheTtl(q))
           /\ req' = [req EXCEPT ![r] =
                        IF CacheRaises THEN Return(q, ServerError)
                        ELSE Return(q, Ok(q.obj))]
    /\ UNCHANGED <<cat_table, id_seq, redis_up, enabled, redis_client, phase,
                   served>>

\* flush_cache: result = await cache_manager.flush().
FlushCache(r) ==
    /\ req[r].pc = "flush"
    /\ redis_db' = CacheFlushDb
    /\ req' = [req EXCEPT ![r] =
                 IF CacheRaises THEN Return(@, ServerError)
                 ELSE Return(@, Ok([success |-> CacheFlushRet]))]
    /\ UNCHANGED <<cat_table, id_seq, redis_up, enabled, redis_client, phase,
                   served>>

\* ra: await cache_manager.set('key', 'value'), with the default ttl, and
\* the return of the message.
Ra(r) ==
    /\ req[r].pc = "ra"
    /\ LET q == Call(req[r], EvSet(KeyRa, JStr("value")))
       IN  /\ redis_db' = CacheSetDb(KeyRa, JStr("value"), TtlDefault)
           /\ req' = [req EXCEPT ![r] =
                        IF CacheRaises THEN Return(q, ServerError)
                        ELSE Return(q, Ok([message |-> "RAAAAAAAA"]))]
    /\ UNCHANGED <<cat_table, id_seq, redis_up, enabled, redis_client, phase,
                   served>>

(* ---------------------- direct calls of the adapter ------------------- *)

\* Keys, values and ttls a direct caller passes to the adapter.
AdapterKeys == {KeyAll, KeyId(1)}
JsonValues ==
    {None, JBool(FALSE), JNum(0), JStr(""), List(<<>>), JStr("Tom"),
     List(<<JNum(30), None, List(<<JBool(TRUE), JStr("")>>)>>),
     JMap(<<Member("name", JStr("Tom")), Member("age", JNum(3))>>),
     JMap(<<Member("age", JNum(3)), Member("name", JStr("Tom"))>>)}
Ttls == {TtlAll, TtlId}

\* The callback raised.
Raised == [raised |-> TRUE]

\* A call of the adapter: the method, its arguments, what it returned and
\* whether Redis raised inside it.
AdapterEv(ev, key, arg, ttl, out) ==
    [ev |-> ev, key |-> key, arg |-> arg, ttl |-> ttl, out |-> out,
     err |-> RedisRaises]

\* The caller, between two calls; `body` holds the key and the ttl it works
\* with.
AdapterCaller(key, ttl) ==
    [Idle EXCEPT !.op = "adapter", !.pc = "adapter",
                 !.body = [key |-> key, ttl |-> ttl]]

\* The caller is the only task: the state after construction, with the
\* caller in slot 1, for any key and ttl.
InitAdapter ==
    /\ cat_table = {}
    /\ id_seq = 1
    /\ redis_db = [k \in Keys |-> Missing]
    /\ redis_up \in BOOLEAN
    /\ enabled \in BOOLEAN
    /\ redis_client = "None"
    /\ phase = "startup"
    /\ served = 0
    /\ \E key \in AdapterKeys, ttl \in Ttls :
          req = [r \in Reqs |-> IF r = 1 THEN AdapterCaller(key, ttl) ELSE Idle]

\* The caller is about to make its next call; `served` counts its calls.
AdapterReady ==
    /\ req[1].pc = "adapter"
    /\ served < MaxCalls

\* The caller makes a call: `calls` holds what the call in progress (or the
\* last one) has done, `prior` what the call before it did.
Enter(q, ev) ==
    [q EXCEPT !.calls = <<ev>>,
              !.prior = [op |-> q.op, resp |-> NoResp, calls |-> q.calls]]

\* await cache_manager.get(key)
AdapterGet(key) ==
    /\ AdapterReady
    /\ req' = [req EXCEPT ![1] =
                 Enter(@, AdapterEv("get", key, None, 0, CacheGet(key)))]
    /\ served' = served + 1
    /\ UNCHANGED <<cat_table, id_seq, redis_db, redis_up, enabled, redis_client,
                   phase>>

\* await cache_manager.set(key, value, ttl)
AdapterSet(key, value, ttl) ==
    /\ AdapterReady
    /\ redis_db' = CacheSetDb(key, value, ttl)
    /\ req' = [req EXCEPT ![1] =
                 Enter(@, AdapterEv("set", key, value, ttl,
                                   JBool(CacheSetRet(key, value, ttl))))]
    /\ served' = served + 1
    /\ UNCHANGED <<cat_table, id_seq, redis_up, enabled, redis_client, phase>>

\* await cache_manager.exists(key)
AdapterExists(key) ==
    /\ AdapterReady
    /\ req' = [req EXCEPT ![1] =
                 Enter(@, AdapterEv("exists", key, None, 0,
                                   JBool(CacheExists(key))))]
    /\ served' = served + 1
    /\ UNCHANGED <<cat_table, id_seq, redis_db, redis_up, enabled, redis_client,
                   phase>>

\* await cache_manager.delete(key)
AdapterDelete(key) ==
    /\ AdapterReady
    /\ redis_db' = CacheDeleteDb(key)
    /\ req' = [req EXCEPT ![1] =
                 Enter(@, AdapterEv("delete", key, None, 0,
                                   JBool(CacheDeleteRet(key))))]
    /\ served' = served + 1
    /\ UNCHANGED <<cat_table, id_seq, redis_up, enabled, redis_client, phase>>

\* await cache_manager.flush()
AdapterFlush ==
    /\ AdapterReady
    /\ redis_db' = CacheFlushDb
    /\ req' = [req EXCEPT ![1] =
                 Enter(@, AdapterEv("flush", "", None, 0, JBool(CacheFlushRet)))]
    /\ served' = served + 1
    /\ UNCHANGED <<cat_table, id_seq, redis_up, enabled, redis_client, phase>>

\* get_or_set with `if cached:`, which takes a cached 0, "", False or empty
\* collection for a miss.
GetOrSetHitTruthy(cached) == ~Falsy(cached)

\* get_or_set: `if cached is not None: return cached`
GetOrSetHit(cached) == cached # None

\* get_or_set(key, callback, ttl): cached = await self.get(key), and the
\* return of a cached value.
GetOrSetGet(key, ttl) ==
    /\ AdapterReady
    /\ LET cached == CacheGet(key)
           q == Call(Enter(req[1], AdapterEv("get_or_set", key, None, ttl, None)),
                     AdapterEv("get", key, None, 0, cached))
       IN  req' = [req EXCEPT ![1] =
                    IF GetOrSetHit(cached)
                    THEN Call(q, AdapterEv("return", key, None, ttl, cached))
                    ELSE [q EXCEPT !.pc = "gos_callback",
                                   !.obj = [key |-> key, ttl |-> ttl]]]
    /\ served' = served + 1
    /\ UNCHANGED <<cat_table, id_seq, redis_db, redis_up, enabled, redis_client,
                   phase>>

\* get_or_set: result = await callback().  The callback returns a value or
\* raises; what it raises leaves get_or_set uncaught.
GetOrSetCallback ==
    /\ req[1].pc = "gos_callback"
    /\ \E result \in JsonValues \cup {Raised} :
          LET f == req[1].obj
              q == Call(req[1], AdapterEv("callback", f.key, None, 0, result))
          IN  req' = [req EXCEPT ![1] =
                       IF result = Raised
                       THEN [Call(q, AdapterEv("raise", f.key, None, f.ttl, Raised))
                               EXCEPT !.pc = "adapter", !.obj = None]
                       ELSE [q EXCEPT !.pc = "gos_set",
                                      !.obj = [key |-> f.key, ttl |-> f.ttl,
                                               result |-> result]]]
    /\ UNCHANGED <<cat_table, id_seq, redis_db, redis_up, enabled, redis_client,
                   phase, served>>

\* get_or_set: await self.set(key, result, ttl); return result
GetOrSetSet ==
    /\ req[1].pc = "gos_set"
    /\ LET f == req[1].obj
           q == Call(Call(req[1],
                          AdapterEv("set", f.key, f.result, f.ttl,
                                    JBool(CacheSetRet(f.key, f.result, f.ttl)))),
                     AdapterEv("return", f.key, None, f.ttl, f.result))
       IN  /\ redis_db' = CacheSetDb(f.key, f.result, f.ttl)
           /\ req' = [req EXCEPT ![1] = [q EXCEPT !.pc = "adapter", !.obj = None]]
    /\ UNCHANGED <<cat_table, id_seq, redis_up, enabled, redis_client, phase,
                   served>>

(* -------------------------- specifications ---------------------------- *)

Step(r) ==
    \/ CreateFlush(r)
    \/ CreateCommit(r)
    \/ Refresh(r)
    \/ DeleteExecute(r)
    \/ DeleteCommit(r)
    \/ UpdateSelect(r)
    \/ UpdateFlush(r)
    \/ UpdateCommit(r)
    \/ Invalidate(r)
    \/ ReadGet(r)
    \/ ReadSelect(r)
    \/ ReadSet(r)
    \/ FlushCache(r)
    \/ Ra(r)
    \/ Respond(r)

\* Concurrent clients; Redis is up or down for the whole run.
Next ==
    \/ Connect
    \/ Disconnect
    \/ \E key \in Keys : Expire(key)
    \/ \E r \in Reqs : StartRequest(r, FALSE) \/ Step(r)

Spec == Init /\ [][Next]_vars

\* Clients that send one request at a time; Redis is up or down for the
\* whole run.
NextSerial ==
    \/ Connect
    \/ Disconnect
    \/ \E key \in Keys : Expire(key)
    \/ \E r \in Reqs : StartRequest(r, TRUE) \/ ReadBack(r) \/ Step(r)

SpecSerial == Init /\ [][NextSerial]_vars

\* Clients that send one request at a time; Redis may fail and recover at
\* any moment, between any two calls.
NextFaulty ==
    \/ BackendFail
    \/ BackendRecover
    \/ NextSerial

SpecFaulty == Init /\ [][NextFaulty]_vars

\* One task that calls the adapter's methods directly, with any keys and
\* values; Redis may fail, recover and expire keys between any two calls.
NextAdapter ==
    \/ Connect
    \/ BackendFail
    \/ BackendRecover
    \/ \E key \in Keys : Expire(key)
    \/ AdapterGet(req[1].body.key)
    \/ AdapterExists(req[1].body.key)
    \/ AdapterDelete(req[1].body.key)
    \/ GetOrSetGet(req[1].body.key, req[1].body.ttl)
    \/ \E value \in JsonValues :
          AdapterSet(req[1].body.key, value, req[1].body.ttl)
    \/ AdapterFlush
    \/ GetOrSetCallback
    \/ GetOrSetSet

SpecAdapter == InitAdapter /\ [][NextAdapter]_vars

(* ------------------------------ claims -------------------------------- *)

\* The cache is enabled, connected, and Redis answers.
CacheWorking == enabled /\ redis_client = "Redis" /\ redis_up

Done(q) == q.pc = "done"

\* Positions of the calls of q of kind `ev` on `key` ("" for store calls).
CallsOf(q, ev, key) ==
    {i \in 1..Len(q.calls) : q.calls[i].ev = ev /\ q.calls[i].key = key}

\* A cache call of q during which Redis raised.
CacheFailed(q) == \E i \in 1..Len(q.calls) : q.calls[i].err

\* The adapter is enabled and disconnected: connect() has failed.
Disconnected == enabled /\ redis_client = "None" /\ phase # "startup"

\* What GET /cats/{id} answers from the row as the table holds it now: the
\* row, or its cached form, or 404.
Fresh(cat_id) ==
    IF SelectById(cat_id) = None THEN {NotFound}
    ELSE {Ok(SelectById(cat_id)), Ok(JsonCoerce(SelectById(cat_id)))}

\* What the store alone gives as the answer of a finished request: the
\* answers it may give (a list in any of the orders the select may return).
StoreResponse(q) ==
    IF q.op \in ReadOps
    THEN IF q.op = "get_cat_by_id" /\ SelectById(q.cat_id) = None THEN {NotFound}
         ELSE {Ok(result) : result \in StoreRead(q)}
    ELSE IF q.op = "delete_cat" THEN {Ok([message |-> q.cat_id])}
    ELSE IF q.op = "update_cat" /\ SelectById(q.cat_id) = None THEN {NotFound}
    ELSE {Ok(SelectById(Target(q)))}

\* C1: every update and every delete that has committed issues, after its
\* commit, a cache delete of cat:<id> for its id and one of cats:all.
C1_WriteInvalidatesItsId ==
    \A r \in Reqs :
        LET q == req[r] IN
        (Done(q) /\ q.op \in {"update_cat", "delete_cat"}
                 /\ CallsOf(q, "commit", "") # {})
        => \E i \in CallsOf(q, "commit", "") :
              /\ \E j \in CallsOf(q, "delete", KeyId(q.cat_id)) : i < j
              /\ \E j \in CallsOf(q, "delete", KeyAll) : i < j

\* C2: with the cache working, the GET /cats/{id} that follows a completed
\* DELETE /cats/{id} of the same id answers 404.
C2_GetAfterDeleteIsNotFound ==
    \A r \in Reqs :
        LET q == req[r] IN
        (Done(q) /\ q.op = "get_cat_by_id" /\ q.prior.op = "delete_cat"
                 /\ CacheWorking)
        => q.resp = NotFound

\* C3: with the cache working, a GET /cats/{id} that starts when every write
\* to its id has completed its invalidation, and during which no write to
\* that id commits, answers with the row as those writes left it, never with
\* an older value.
C3_NoValueOlderThanTheWrite ==
    \A r \in Reqs :
        LET q == req[r] IN
        (Done(q) /\ q.op = "get_cat_by_id" /\ q.quiet /\ CacheWorking)
        => q.resp \in Fresh(q.cat_id)

\* C3, for rows no DELETE has touched: the same, for a GET /cats/{id} whose
\* row is in the table (ids are not given twice, so the row was never
\* deleted and only POST and PATCH have written it).
C3_NoValueOlderThanTheUpdate ==
    \A r \in Reqs :
        LET q == req[r] IN
        (Done(q) /\ q.op = "get_cat_by_id" /\ q.quiet /\ CacheWorking
                 /\ SelectById(q.cat_id) # None)
        => q.resp \in Fresh(q.cat_id)

\* C4: in every create, update and delete request a delete of cats:all comes
\* only after the request's commit, and a finished request that has
\* committed has issued it.
C4_InvalidateAllAfterEveryCommit ==
    \A r \in Reqs :
        LET q == req[r] IN
        q.op \in WriteOps =>
            /\ \A j \in CallsOf(q, "delete", KeyAll) :
                  \E i \in CallsOf(q, "commit", "") : i < j
            /\ (Done(q) /\ CallsOf(q, "commit", "") # {})
                  => CallsOf(q, "delete", KeyAll) # {}

\* C5: the GET /cats/{id} that immediately follows a POST /cats, for the id
\* the POST assigned, answers with the entity the POST returned.
C5_ReadYourCreate ==
    \A r \in Reqs :
        LET q == req[r] IN
        (Done(q) /\ q.op = "get_cat_by_id" /\ q.prior.op = "create_cat")
        => q.resp = Ok(q.prior.resp.body)

\* C5 witness: the fetch of a created cat has been answered after an earlier
\* cat was fetched (and cached) and deleted.
C5_Witness ==
    \E r \in Reqs :
        /\ Done(req[r]) /\ req[r].op = "get_cat_by_id"
        /\ req[r].prior.op = "create_cat"
        /\ req[r].cat_id = 2
        /\ SelectById(1) = None
        /\ redis_db[KeyId(1)] # Missing

\* C6: a CRUD request during which a cache call failed inside the adapter,
\* or which ran on a disconnected adapter, is answered (no exception reaches
\* the handler) with what the store alone gives; for a write, with the
\* store's result although an invalidation failed.
C6_CacheFailureKeepsStoreResult ==
    \A r \in Reqs :
        LET q == req[r] IN
        (Done(q) /\ q.op \in ReadOps \cup WriteOps
                 /\ (CacheFailed(q) \/ Disconnected))
        => q.resp \in StoreResponse(q)

\* C6 witness: an update whose delete of cat:<id> failed has returned the
\* updated row.
C6_Witness ==
    \E r \in Reqs :
        LET q == req[r] IN
        /\ Done(q) /\ q.op = "update_cat" /\ q.resp.status = 200
        /\ \E i \in CallsOf(q, "delete", KeyId(q.cat_id)) : q.calls[i].err
        /\ Dirty(q.resp.body, q.loaded) # {}

\* C7: (in particular) after an update whose invalidation failed inside the
\* adapter, the GET /cats/{id} that follows answers with the row as the
\* store holds it, not with a stale value.
C7_FailedInvalidationServesNoStaleValue ==
    \A r \in Reqs :
        LET q == req[r] IN
        (Done(q) /\ q.op = "get_cat_by_id" /\ q.prior.op = "update_cat"
                 /\ \E i \in 1..Len(q.prior.calls) : q.prior.calls[i].err)
        => q.resp \in Fresh(q.cat_id)

\* C8: with the cache disabled, in every state get returns None for every
\* key, set and delete return False and leave Redis alone, and every finished
\* CRUD request has the store's answer.
C8_DisabledCache ==
    ~enabled =>
        /\ \A key \in Keys :
              /\ CacheGet(key) = None
              /\ ~CacheDeleteRet(key)
              /\ CacheDeleteDb(key) = redis_db
              /\ \A r \in Reqs :
                    /\ ~CacheSetRet(key, req[r].obj, TtlId)
                    /\ CacheSetDb(key, req[r].obj, TtlId) = redis_db
        /\ \A r \in Reqs :
              (Done(req[r]) /\ req[r].op \in ReadOps \cup WriteOps)
              => req[r].resp \in StoreResponse(req[r])

\* C8 witness: with the cache disabled, a cat was created and a GET by id
\* has returned it after calling get and set on the adapter.
C8_Witness ==
    /\ ~enabled
    /\ \E r \in Reqs :
          /\ Done(req[r]) /\ req[r].op = "get_cat_by_id"
          /\ req[r].resp.status = 200
          /\ CallsOf(req[r], "set", KeyId(req[r].cat_id)) # {}

\* C9: on every read path, when the adapter's get returned a value, the
\* handler has returned that value at once: the get is its only call.
C9_HitReturnsCachedWithoutStore ==
    \A r \in Reqs :
        LET q == req[r] IN
        (q.op \in ReadOps /\ Len(q.calls) >= 1 /\ q.calls[1].out # None)
        => /\ q.calls[1].ev = "get" /\ q.calls[1].key = CacheKey(q)
           /\ Done(q)
           /\ Len(q.calls) = 1
           /\ q.resp = Ok(q.calls[1].out)

\* C9 witness: GET / has been answered from a cached empty list.
C9_Witness ==
    \E r \in Reqs :
        /\ Done(req[r]) /\ req[r].op = "get_cats"
        /\ req[r].calls = <<EvGet(KeyAll, List(<<>>))>>

\* C10: a GET /cats/{id} whose select found no row has answered 404 without
\* a cache set, and no cat:<id> key holds a not-found result.
C10_NotFoundIsNeverCached ==
    /\ \A r \in Reqs :
          LET q == req[r] IN
          (q.op = "get_cat_by_id"
              /\ \E i \in CallsOf(q, "select", "") : q.calls[i].out = None)
          => /\ Done(q)
             /\ q.resp = NotFound
             /\ CallsOf(q, "set", KeyId(q.cat_id)) = {}
    /\ \A i \in Ids :
          redis_db[KeyId(i)] # Missing
          => redis_db[KeyId(i)].text # JsonDumps(None)

\* C10 witness: with the cache working, a GET /cats/{id} has answered 404
\* after a miss and a select.
C10_Witness ==
    \E r \in Reqs :
        /\ CacheWorking
        /\ Done(req[r]) /\ req[r].op = "get_cat_by_id"
        /\ req[r].resp = NotFound
        /\ Len(req[r].calls) = 2

\* The calls of the adapter's direct caller: the call in progress (or the
\* last one), and the one before it.
AdapterCalls == req[1].calls
AdapterPrior == req[1].prior.calls

\* The caller's last call is a direct call of method `ev` (not a step of
\* get_or_set).
Direct(calls, ev) == Len(calls) = 1 /\ calls[1].ev = ev

\* C11: with the cache enabled, connected and answering, a get(key) that
\* directly follows a successful set(key, v, ttl) of a JSON value v (null,
\* false, zero, the empty string and the empty list among them), the key not
\* expired, returns v.
C11_SetThenGetRoundTrip ==
    [][(/\ req[1].op = "adapter"
        /\ Direct(AdapterCalls, "set")
        /\ AdapterCalls[1].out = JBool(TRUE)
        /\ Direct(AdapterCalls', "get")
        /\ AdapterCalls'[1].key = AdapterCalls[1].key
        /\ CacheWorking
        /\ redis_db[AdapterCalls[1].key] # Missing)
       => /\ AdapterCalls[1].arg \in JsonValues
          /\ AdapterCalls'[1].out = AdapterCalls[1].arg]_vars

\* C11 witness: set(key, False, ttl) returned True and the get(key) after it
\* returned False.
C11_Witness ==
    /\ req[1].op = "adapter"
    /\ Direct(AdapterPrior, "set") /\ Direct(AdapterCalls, "get")
    /\ AdapterPrior[1].arg = JBool(FALSE)
    /\ AdapterPrior[1].out = JBool(TRUE)
    /\ AdapterCalls[1].key = AdapterPrior[1].key
    /\ AdapterCalls[1].out = JBool(FALSE)

\* C12: in every state of the cache (key present or not, adapter enabled or
\* not, connected or not, Redis answering or not), when delete(key) is called
\* right after a get(key), a get(key) in the state the delete leaves returns
\* None.
C12_GetDeleteGetIsAbsent ==
    [][(/\ req[1].op = "adapter"
        /\ Direct(AdapterCalls, "get")
        /\ Direct(AdapterCalls', "delete")
        /\ AdapterCalls'[1].key = AdapterCalls[1].key)
       => CacheGet(AdapterCalls[1].key)' = None]_vars

\* C12 witness: get(key) returned a value, delete(key) returned True, and a
\* get(key) now returns None.
C12_Witness ==
    /\ req[1].op = "adapter"
    /\ Direct(AdapterPrior, "get") /\ Direct(AdapterCalls, "delete")
    /\ AdapterPrior[1].out # None
    /\ AdapterCalls[1].key = AdapterPrior[1].key
    /\ AdapterCalls[1].out = JBool(TRUE)
    /\ CacheWorking
    /\ CacheGet(AdapterCalls[1].key) = None

\* The calls of a get_or_set are well formed: the get first; on a value
\* (not None) the return of that value and nothing else; on None the callback,
\* once, then either its exception, or the set of its result under the same
\* key and ttl and the return of the result.
GetOrSetCalls(c) ==
    /\ Len(c) >= 2 /\ c[2].ev = "get" /\ c[2].key = c[1].key
    /\ c[2].out # None =>
          /\ Len(c) = 3
          /\ c[3].ev = "return" /\ c[3].out = c[2].out
    /\ (c[2].out = None /\ Len(c) >= 3) =>
          /\ c[3].ev = "callback"
          /\ c[3].out = Raised => (Len(c) = 4 /\ c[4].ev = "raise")
          /\ (c[3].out # Raised /\ Len(c) >= 4) =>
                /\ Len(c) = 5
                /\ c[4].ev = "set" /\ c[4].key = c[1].key
                /\ c[4].arg = c[3].out /\ c[4].ttl = c[1].ttl
                /\ c[5].ev = "return" /\ c[5].out = c[3].out

\* C13: get_or_set returns the value get gave without calling the callback
\* when that value is not None; otherwise it calls the callback once, sets its
\* result under the key with the ttl (Redis then holds it when the cache
\* works) and returns it; when the callback raises, get_or_set raises and
\* Redis is left as it was.
C13_GetOrSet ==
    /\ [](\A calls \in {AdapterCalls, AdapterPrior} :
            (req[1].op = "adapter" /\ Len(calls) >= 1
                /\ calls[1].ev = "get_or_set") => GetOrSetCalls(calls))
    /\ [][(req[1].pc = "gos_set" /\ req'[1].pc = "adapter") =>
            /\ Len(AdapterCalls') = 5
            /\ CacheWorking =>
                  redis_db'[AdapterCalls'[1].key] =
                     [text |-> JsonDumps(AdapterCalls'[3].out),
                      ttl |-> AdapterCalls'[1].ttl]]_vars
    /\ [][(req[1].pc = "gos_callback" /\ req'[1].pc = "adapter")
            => /\ AdapterCalls'[Len(AdapterCalls')].ev = "raise"
               /\ redis_db' = redis_db]_vars

\* C13 witness: a get_or_set whose callback raised was followed by one that
\* found nothing, called the callback, stored an empty list and returned it.
C13_Witness ==
    /\ req[1].op = "adapter" /\ req[1].pc = "adapter"
    /\ Len(AdapterPrior) = 4 /\ AdapterPrior[4].ev = "raise"
    /\ Len(AdapterCalls) = 5 /\ AdapterCalls[4].out = JBool(TRUE)
    /\ AdapterCalls[5].out = List(<<>>)
    /\ redis_db[AdapterCalls[1].key] # Missing

\* The name-search keys.
NameKeys == {KeyName(n) : n \in Names}

\* C14: no create, update or delete request makes a cache call on a
\* cat:name:<name> key, and the value of such a key changes only when a name
\* search that missed sets it, when it expires, or when the cache is flushed.
C14_NameKeysOnlyPopulatedExpiredFlushed ==
    /\ [](\A r \in Reqs :
            req[r].op \in WriteOps =>
               \A i \in 1..Len(req[r].calls) : req[r].calls[i].key \notin NameKeys)
    /\ [][\A n \in Names :
            redis_db'[KeyName(n)] # redis_db[KeyName(n)] =>
               \/ req' = req /\ redis_db'[KeyName(n)] = Missing
               \/ \E r \in Reqs :
                     /\ req[r].op = "flush_cache" /\ req[r].pc = "flush"
                     /\ req'[r].pc = "done"
                     /\ redis_db'[KeyName(n)] = Missing
               \/ \E r \in Reqs :
                     /\ req[r].op = "get_cat_by_name" /\ req[r].cat_name = n
                     /\ req[r].pc = "read_set" /\ req'[r].pc = "done"
                     /\ req[r].calls[1] = EvGet(KeyName(n), None)]_vars

\* C14 witness: cat:name:Tom holds the cat a search found, and an update that
\* renamed that cat has returned.
C14_Witness ==
    /\ redis_db[KeyName("Tom")] # Missing
    /\ JsonLoads(redis_db[KeyName("Tom")].text) # List(<<>>)
    /\ \E r \in Reqs :
          /\ Done(req[r]) /\ req[r].op = "update_cat"
          /\ req[r].resp.status = 200
          /\ req[r].loaded.name = "Tom" /\ req[r].resp.body.name = "Kit"

\* C15: a connect() that fails (cache enabled, Redis not answering) returns
\* with the adapter disconnected and the application starts serving; while
\* the adapter is disconnected, whether or not Redis has come back, get
\* returns None, set, exists, delete and flush return False and leave Redis
\* alone, and every finished CRUD request has the store's answer.
C15_FailedConnectDegrades ==
    /\ [][(phase = "startup" /\ phase' # "startup" /\ enabled /\ ~redis_up)
            => (redis_client' = "None" /\ phase' = "serving")]_vars
    /\ [](Disconnected =>
            /\ \A key \in Keys :
                  /\ CacheGet(key) = None
                  /\ ~CacheExists(key)
                  /\ ~CacheDeleteRet(key) /\ CacheDeleteDb(key) = redis_db
                  /\ \A r \in Reqs :
                        /\ ~CacheSetRet(key, req[r].obj, TtlAll)
                        /\ CacheSetDb(key, req[r].obj, TtlAll) = redis_db
            /\ ~CacheFlushRet /\ CacheFlushDb = redis_db
            /\ \A r \in Reqs :
                  (Done(req[r]) /\ req[r].op \in ReadOps \cup WriteOps)
                  => req[r].resp \in StoreResponse(req[r]))

\* C15 witness: connect() failed, Redis has come back since, and a PATCH and
\* the GET of the same id after it were answered from the store, the GET
\* after calling get and set on the adapter.
C15_Witness ==
    /\ Disconnected /\ redis_up
    /\ \E r \in Reqs :
          /\ Done(req[r]) /\ req[r].op = "get_cat_by_id"
          /\ req[r].prior.op = "update_cat"
          /\ req[r].resp = Ok(SelectById(req[r].cat_id))
          /\ Len(req[r].calls) = 3

\* Row `new` is row `old` with exactly the fields of `body` set to the
\* values `body` gives.
Patched(old, body, new) ==
    /\ \A f \in DOMAIN body : new[f] = body[f]
    /\ \A f \in (DOMAIN old) \ (DOMAIN body) : new[f] = old[f]

\* C16: with requests one at a time, the commit of a PATCH /cats/{id} on an
\* existing id replaces that row by the row with exactly the supplied fields
\* changed and leaves every other row alone, no other step of the request
\* changes the table, the PATCH returns the row as the table then holds it,
\* and the GET /cats/{id} that follows returns that row (as the row or in its
\* cached form).
C16_PatchChangesExactlySuppliedFields ==
    /\ [][\A r \in Reqs :
            (req[r].op = "update_cat" /\ req'[r] # req[r]) =>
               IF req[r].pc = "update_commit"
               THEN LET old == SelectById(req[r].cat_id)
                        new == SelectById(req[r].cat_id)'
                    IN  /\ old # None /\ new # None
                        /\ Patched(old, req[r].body, new)
                        /\ cat_table' \ {new} = cat_table \ {old}
               ELSE cat_table' = cat_table]_vars
    /\ [](\A r \in Reqs :
            LET q == req[r] IN
            /\ (Done(q) /\ q.op = "update_cat" /\ q.loaded # None)
                  => /\ q.resp.status = 200
                     /\ Patched(q.loaded, q.body, q.resp.body)
                     /\ q.resp.body = SelectById(q.cat_id)
            /\ (Done(q) /\ q.op = "get_cat_by_id" /\ q.prior.op = "update_cat")
                  => q.resp \in {Ok(q.prior.resp.body),
                                 Ok(JsonCoerce(q.prior.resp.body))})

\* The key and the ttl of each read pattern.
PatternKey(q) ==
    CASE q.op = "get_cats" -> "cats:all"
      [] q.op = "get_cat_by_id" -> "cat:" \o ToString(q.cat_id)
      [] q.op = "get_cat_by_name" -> "cat:name:" \o q.cat_name
PatternTtl(q) ==
    CASE q.op = "get_cats" -> 300
      [] q.op = "get_cat_by_id" -> 600
      [] q.op = "get_cat_by_name" -> 300

\* C17: a read request whose cache get returned None and whose select gave a
\* result (a list, or a row) makes its calls in the order get, select, set;
\* the set is of the select's result under the pattern's key; the request
\* returns that result; and when the cache works the set leaves the key
\* holding the result's serialization with the pattern's ttl.
C17_MissPopulatesWithStoreResult ==
    /\ [](\A r \in Reqs :
            LET q == req[r]  c == req[r].calls IN
            (q.op \in ReadOps /\ Len(c) >= 2 /\ c[1].out = None
                /\ ~(q.op = "get_cat_by_id" /\ c[2].out = None))
            => /\ c[1].ev = "get" /\ c[1].key = PatternKey(q)
               /\ c[2].ev = "select"
               /\ Len(c) <= 3
               /\ Len(c) = 3 => (c[3].ev = "set" /\ c[3].key = PatternKey(q)
                                   /\ c[3].out = c[2].out)
               /\ Done(q) <=> Len(c) = 3
               /\ Done(q) => q.resp = Ok(c[2].out))
    /\ [][\A r \in Reqs :
            (req[r].op \in ReadOps /\ req[r].pc = "read_set"
                /\ req'[r].pc = "done" /\ CacheWorking)
            => redis_db'[PatternKey(req[r])] =
                  [text |-> JsonDumps(req[r].calls[2].out),
                   ttl |-> PatternTtl(req[r])]]_vars

\* C17 witness: with the cache working, a GET /cats/1 that missed has
\* returned the row, and cat:1 holds it with ttl 600.
C17_Witness ==
    /\ CacheWorking
    /\ \E r \in Reqs :
          /\ Done(req[r]) /\ req[r].op = "get_cat_by_id" /\ req[r].cat_id = 1
          /\ Len(req[r].calls) = 3
          /\ IsCat(req[r].resp.body)
          /\ redis_db[KeyId(1)] =
                [text |-> JsonDumps(req[r].resp.body), ttl |-> 600]

\* C18: a PATCH /cats/{id} whose select found no row answers 404 with the
\* select as its only call (no commit, no cache delete), and the step that
\* answers leaves the table and every cache key as they were.
C18_PatchOfAbsentIdChangesNothing ==
    /\ [](\A r \in Reqs :
            LET q == req[r] IN
            (q.op = "update_cat" /\ Len(q.calls) >= 1 /\ q.calls[1].out = None)
            => /\ Done(q) /\ q.resp = NotFound
               /\ q.calls = <<EvSelect(None)>>)
    /\ [][\A r \in Reqs :
            (req[r].op = "update_cat" /\ req[r].pc = "update_select"
                /\ req'[r] # req[r] /\ SelectById(req[r].cat_id) = None)
            => /\ req'[r].resp = NotFound
               /\ cat_table' = cat_table
               /\ redis_db' = redis_db]_vars

\* C18 witness: with the cache working and cats:all cached, a PATCH of an id
\* the table does not hold has answered 404; cats:all is still there.
C18_Witness ==
    /\ CacheWorking
    /\ redis_db[KeyAll] # Missing
    /\ JsonLoads(redis_db[KeyAll].text) # List(<<>>)
    /\ \E r \in Reqs :
          /\ Done(req[r]) /\ req[r].op = "update_cat"
          /\ req[r].resp = NotFound
          /\ req[r].body # <<>>

\* C19: with requests one at a time and Redis up or down for the whole run,
\* in every state where no write request is between its commit and the end
\* of its cache deletes, cats:all, when Redis holds it, decodes to the
\* table's rows, in one of the orders the select may return them and in the
\* form in which get_cats caches them.
C19_CachedCollectionIsCurrent ==
    ((\A r \in Reqs : ~Invalidating(req[r])) /\ redis_db[KeyAll] # Missing)
    => JsonLoads(redis_db[KeyAll].text) \in {JsonCoerce(l) : l \in SelectAll}

\* C19 as stated, in every state: with requests one at a time and Redis up or
\* down for the whole run, cats:all, whenever Redis holds it, decodes to the
\* table's rows.  Between the commit of a write request and its delete of
\* cats:all the key still holds the rows as they were before the commit.
C19_CachedCollectionAlwaysCurrent ==
    redis_db[KeyAll] # Missing
    => JsonLoads(redis_db[KeyAll].text) \in {JsonCoerce(l) : l \in SelectAll}

\* C19 witness: cats:all is cached with both cats of the table in it, after
\* it was cached with one and the second POST deleted it.
C19_Witness ==
    /\ \A r \in Reqs : req[r].pc \in {"idle", "done"}
    /\ redis_db[KeyAll] # Missing
    /\ Cardinality(cat_table) = 2
    /\ Len(JsonLoads(redis_db[KeyAll].text).list) = 2
    /\ served = MaxSerial

\* C20: a DELETE /cats/{id} never answers 404; its statement deletes the row
\* that has the id when it runs and none when there is no such row; its
\* commit removes that row and nothing else, after which no row has the id,
\* and changes nothing when the statement deleted none, so that a second
\* DELETE of the id leaves the table as the first left it; whether or not
\* the row was there, the finished request has deleted cats:all after the
\* commit and answers 200 with the same message.
C20_DeleteIsIdempotent ==
    /\ [](\A r \in Reqs :
            LET q == req[r] IN
            q.op = "delete_cat" =>
               /\ q.resp.status \in {0, 200}
               /\ Done(q) =>
                     /\ q.resp = Ok([message |-> q.cat_id])
                     /\ Len(q.calls) = 3
                     /\ q.calls[1].ev = "execute"
                     /\ q.calls[2].ev = "commit"
                     /\ q.calls[3].ev = "delete" /\ q.calls[3].key = "cats:all")
    /\ [][\A r \in Reqs :
            /\ (req[r].op = "delete_cat" /\ req[r].pc = "delete_execute"
                    /\ req'[r] # req[r])
                => /\ cat_table' = cat_table
                   /\ req'[r].loaded = SelectById(req[r].cat_id)
            /\ (req[r].op = "delete_cat" /\ req[r].pc = "delete_commit"
                    /\ req'[r] # req[r])
                => /\ cat_table' = {c \in cat_table : c # req[r].loaded}
                   /\ req[r].loaded = None => cat_table' = cat_table
                   /\ req[r].loaded # None =>
                         /\ req[r].loaded = SelectById(req[r].cat_id)
                         /\ \A c \in cat_table' : c.id # req[r].cat_id]_vars

\* C20 witness: cat 1 was created, and two DELETE /cats/1 have both finished
\* with the same answer; another cat is still in the table.
C20_Witness ==
    /\ \A r \in Reqs :
          /\ Done(req[r]) /\ req[r].op = "delete_cat" /\ req[r].cat_id = 1
          /\ req[r].resp = Ok([message |-> 1])
    /\ id_seq = 3
    /\ Cardinality(cat_table) = 1

====
